---- MODULE Spec2Model ----
(***************************************************************************)
(* Real-time coordination layer of the ChitChat backend.                   *)
(*                                                                         *)
(* The repository holds two socket layers: lib/socket.js (served by        *)
(* index.js) and lib/socket_enhanced.js (served by index_enhanced.js).     *)
(* Exactly one of them hosts the client connections of a running process;  *)
(* the variable `server` records which one.  The REST controllers that     *)
(* change group membership reach the connections through the io instance   *)
(* exported by lib/socket.js.                                              *)
(*                                                                         *)
(* Every handler is a function from the state record to the state record,  *)
(* so that a handler calling another one (an eviction running the          *)
(* disconnect listener of the evicted socket, a timer calling              *)
(* handleStopTyping) is the composition of the two.                        *)
(***************************************************************************)
EXTENDS Integers, Sequences, FiniteSets, Bags, TLC

\* ---------------------------------------------------------------- bounds
NumUsers == 2
NumSockets == 2
NumConvs == 1
MaxTyping == 2
NumMsgs == 1
NumEmojis == 2
MaxClock == 1
MaxInFlight == 2
MaxUpdates == 2
MaxWriteErrors == 1
MaxVersion == 2

\* ------------------------------------------------------ program constants
None == 0
TYPING_TIMEOUT_ENHANCED == 10000
CLEANUP_INTERVAL == 5000
\* socket.js: Conversation.find(...).limit(50)
ROOM_LIMIT == 50

Users == 1..NumUsers
\* a userId for which the user store holds no record
Stranger == NumUsers + 1
Ids == Users \cup {Stranger}
Sockets == 1..NumSockets
Convs == 1..NumConvs
Keys == Convs \X Ids
MsgIds == 1..NumMsgs
Emojis == 1..NumEmojis

VARIABLES
  server,        \* which socket layer hosts the connections
  connected,     \* io.sockets.sockets: the live sockets
  handler,       \* position of each socket's io.on("connection") handler
  query,         \* socket.handshake.query.userId
  authUser,      \* socket.userId, set by the io.use middleware
  connUserId,    \* the handler's closure constant userId
  found,         \* result of the handler's Conversation.find
  userSocketMap, \* {userId: socketId}
  socketUserMap, \* {socketId: userId}            (socket.js)
  userPresence,  \* {userId: status}              (socket_enhanced.js)
  pendingOffline,\* disconnect handlers awaiting Conversation.find
  rooms,         \* conversation rooms each socket is in (the adapter)
  userRooms,     \* user_<id> rooms each socket is in
  participants,  \* conversation.participants
  admins,        \* conversation.admins
  typingUsers,   \* (conversationId, userId) -> typing entry
  timers,        \* armed setTimeout handles, by entry key and socket
  received,      \* events each socket was sent
  onlineList,    \* payload of the last getOnlineUsers broadcast
  episodes,      \* per key: typing entries created so far
  typings,       \* per key: userTyping broadcasts so far
  stops,         \* per key: userStoppedTyping broadcasts so far
  lastStop,      \* per key: what caused the latest userStoppedTyping
  now,           \* the clock new Date() reads
  messages,      \* the message store: messageId -> delivery state
  inFlight,      \* receipt handlers between their load and their write
  statusUpdates, \* messageStatusUpdate events sent, by (message, status, user)
  others,        \* per user: further conversations the user participates in
  moreRooms,     \* per socket: how many rooms of those further conversations it is in
  invitations,   \* the pending group invitations
  response,      \* the answer to the latest send request
  writeErrors,   \* how many persistence writes were rejected and logged
  copies,        \* newMessage deliveries, by (socket, message)
  reactionOps,   \* reaction requests between their findById and their save()
  lastReaction   \* the latest reactionAdded / reactionRemoved broadcast

vars == <<server, connected, handler, query, authUser, connUserId, found,
          userSocketMap, socketUserMap, userPresence, pendingOffline, rooms,
          userRooms, participants, admins, typingUsers, timers, received,
          onlineList, episodes, typings, stops, lastStop, now, messages,
          inFlight, statusUpdates, others, moreRooms, invitations,
          response, writeErrors, copies, reactionOps, lastReaction>>

\* ----------------------------------------------------------- the record
Cur ==
  [connected |-> connected, handler |-> handler, query |-> query,
   authUser |-> authUser, connUserId |-> connUserId, found |-> found,
   userSocketMap |-> userSocketMap, socketUserMap |-> socketUserMap,
   userPresence |-> userPresence, pendingOffline |-> pendingOffline,
   rooms |-> rooms, userRooms |-> userRooms, participants |-> participants,
   admins |-> admins, typingUsers |-> typingUsers, timers |-> timers,
   received |-> received, onlineList |-> onlineList, episodes |-> episodes,
   typings |-> typings, stops |-> stops, lastStop |-> lastStop,
   now |-> now, messages |-> messages, inFlight |-> inFlight,
   statusUpdates |-> statusUpdates, others |-> others,
   moreRooms |-> moreRooms, invitations |-> invitations, response |-> response,
   writeErrors |-> writeErrors, copies |-> copies, reactionOps |-> reactionOps,
   lastReaction |-> lastReaction]

Assign(st) ==
  /\ connected' = st.connected
  /\ handler' = st.handler
  /\ query' = st.query
  /\ authUser' = st.authUser
  /\ connUserId' = st.connUserId
  /\ found' = st.found
  /\ userSocketMap' = st.userSocketMap
  /\ socketUserMap' = st.socketUserMap
  /\ userPresence' = st.userPresence
  /\ pendingOffline' = st.pendingOffline
  /\ rooms' = st.rooms
  /\ userRooms' = st.userRooms
  /\ participants' = st.participants
  /\ admins' = st.admins
  /\ typingUsers' = st.typingUsers
  /\ timers' = st.timers
  /\ received' = st.received
  /\ onlineList' = st.onlineList
  /\ episodes' = st.episodes
  /\ typings' = st.typings
  /\ stops' = st.stops
  /\ lastStop' = st.lastStop
  /\ now' = st.now
  /\ messages' = st.messages
  /\ inFlight' = st.inFlight
  /\ statusUpdates' = st.statusUpdates
  /\ others' = st.others
  /\ moreRooms' = st.moreRooms
  /\ invitations' = st.invitations
  /\ response' = st.response
  /\ writeErrors' = st.writeErrors
  /\ copies' = st.copies
  /\ reactionOps' = st.reactionOps
  /\ lastReaction' = st.lastReaction
  /\ UNCHANGED server

\* ------------------------------------------------- objects used as maps
Put(f, k, v) == [x \in DOMAIN f \cup {k} |-> IF x = k THEN v ELSE f[x]]
Del(f, k) == [x \in DOMAIN f \ {k} |-> f[x]]
EmptyMap == [x \in {} |-> None]

Event(name, user) == [name |-> name, user |-> user]

\* bookkeeping: what caused the userStoppedTyping broadcasts of a step
Tag(st0, st1, cause) ==
  [st1 EXCEPT !.lastStop =
     [k \in Keys |-> IF st1.stops[k] # st0.stops[k] THEN cause ELSE @[k]]]

\* socket.emit / io.to(socketId).emit: only a live socket is sent anything
Emit(st, targets, ev) ==
  [st EXCEPT !.received =
     [s \in Sockets |-> IF s \in targets /\ s \in st.connected
                        THEN st.received[s] \cup {ev} ELSE st.received[s]]]

\* the stored conversations of a user
ConvsOf(st, u) == {c \in DOMAIN st.participants : u \in st.participants[c]}

\* the sockets an io.to(room).emit reaches
RoomMembers(st, c) == {s \in st.connected : c \in st.rooms[s]}

\* everything but the conversation store
InitBut ==
  /\ server \in {"socket", "socket_enhanced"}
  /\ connected = {}
  /\ handler = [s \in Sockets |-> "none"]
  /\ query = [s \in Sockets |-> None]
  /\ authUser = [s \in Sockets |-> None]
  /\ connUserId = [s \in Sockets |-> None]
  /\ found = [s \in Sockets |-> [ok |-> TRUE, convs |-> {}, more |-> 0]]
  /\ userSocketMap = EmptyMap
  /\ socketUserMap = EmptyMap
  /\ userPresence = EmptyMap
  /\ pendingOffline = {}
  /\ rooms = [s \in Sockets |-> {}]
  /\ userRooms = [s \in Sockets |-> {}]
  /\ typingUsers = EmptyMap
  /\ timers = [k \in Keys |-> [s \in Sockets |-> 0]]
  /\ received = [s \in Sockets |-> {}]
  /\ onlineList = {}
  /\ episodes = [k \in Keys |-> 0]
  /\ typings = [k \in Keys |-> 0]
  /\ stops = [k \in Keys |-> 0]
  /\ lastStop = [k \in Keys |-> "none"]
  /\ now = 0
  /\ messages = EmptyMap
  /\ inFlight = EmptyBag
  /\ statusUpdates = EmptyBag
  /\ lastReaction = [name |-> "none"]
  /\ moreRooms = [s \in Sockets |-> 0]
  /\ invitations = {}
  /\ response = [op |-> "none"]
  /\ writeErrors = 0
  /\ copies = EmptyBag
  /\ reactionOps = {}

\* every conversation is a group of all users, user 1 its admin
Groups ==
  /\ participants = [c \in Convs |-> Users]
  /\ admins = [c \in Convs |-> {1}]

Init == InitBut /\ Groups /\ others = [u \in Users |-> 0]

\* ------------------------------------------------ typing, lib/socket.js
ClearTimeout(tm, k, s) == IF tm[k][s] > 0 THEN [tm EXCEPT ![k][s] = @ - 1] ELSE tm

\* faulty variant: the clearTimeout of lines 116-118 is missing
handleTypingKeepTimer(st, s, c, u) ==
  LET k == <<c, u>>
      existing == k \in DOMAIN st.typingUsers
  IN [st EXCEPT
        !.timers[k][s] = @ + 1,
        !.typingUsers = Put(@, k, [socketId |-> s, elapsed |-> 0]),
        !.typings[k] = @ + 1,
        !.episodes[k] = IF existing THEN @ ELSE @ + 1]

handleTyping(st, s, c, u) ==
  LET k == <<c, u>>
      existing == k \in DOMAIN st.typingUsers
      cleared == IF existing
                 THEN ClearTimeout(st.timers, k, st.typingUsers[k].socketId)
                 ELSE st.timers
  IN [st EXCEPT
        !.timers = [cleared EXCEPT ![k][s] = @ + 1],
        !.typingUsers = Put(@, k, [socketId |-> s, elapsed |-> 0]),
        !.typings[k] = @ + 1,
        !.episodes[k] = IF existing THEN @ ELSE @ + 1]

\* faulty variant: the entry check of lines 149-153 is missing
handleStopTypingUnguarded(st, s, c, u) ==
  LET k == <<c, u>>
  IN IF k \notin DOMAIN st.typingUsers THEN [st EXCEPT !.stops[k] = @ + 1]
     ELSE [st EXCEPT
             !.timers = ClearTimeout(@, k, st.typingUsers[k].socketId),
             !.typingUsers = Del(@, k),
             !.stops[k] = @ + 1]

handleStopTyping(st, s, c, u) ==
  LET k == <<c, u>>
  IN IF k \notin DOMAIN st.typingUsers THEN st
     ELSE [st EXCEPT
             !.timers = ClearTimeout(@, k, st.typingUsers[k].socketId),
             !.typingUsers = Del(@, k),
             !.stops[k] = @ + 1]

\* ------------------------------------- typing, lib/socket_enhanced.js
OnTyping(st, s, c, u) ==
  LET k == <<c, u>>
  IN [st EXCEPT
        !.typingUsers = Put(@, k, [socketId |-> None, elapsed |-> 0]),
        !.typings[k] = @ + 1,
        !.episodes[k] = IF k \in DOMAIN st.typingUsers THEN @ ELSE @ + 1]

OnStopTyping(st, s, c, u) ==
  LET k == <<c, u>>
  IN IF k \in DOMAIN st.typingUsers
     THEN [st EXCEPT !.typingUsers = Del(@, k), !.stops[k] = @ + 1]
     ELSE st

Expired(e) == e.elapsed > TYPING_TIMEOUT_ENHANCED

\* the setInterval callback; the interval's period passes before it runs
CleanupInterval(st) ==
  LET aged == [k \in DOMAIN st.typingUsers |->
                 [st.typingUsers[k] EXCEPT !.elapsed = @ + CLEANUP_INTERVAL]]
      gone == {k \in DOMAIN aged : Expired(aged[k])}
  IN [st EXCEPT
        !.typingUsers = [k \in DOMAIN aged \ gone |-> aged[k]],
        !.stops = [k \in Keys |-> IF k \in gone THEN @[k] + 1 ELSE @[k]]]

\* ------------------------------------------------- disconnect listeners
RECURSIVE StopOwnTyping(_, _, _, _)
StopOwnTyping(st, s, u, cs) ==
  IF cs = {} THEN st
  ELSE LET c == CHOOSE x \in cs : TRUE
           k == <<c, u>>
           st1 == IF k \in DOMAIN st.typingUsers /\ st.typingUsers[k].socketId = s
                  THEN handleStopTyping(st, s, c, u) ELSE st
       IN StopOwnTyping(st1, s, u, cs \ {c})

DisconnectListenerSocket(st, s) ==
  IF s \in DOMAIN st.socketUserMap
  THEN LET u == st.socketUserMap[s]
           st1 == StopOwnTyping(st, s, u, Convs)
           usm == Del(st1.userSocketMap, u)
       IN [st1 EXCEPT !.userSocketMap = usm,
                      !.socketUserMap = Del(@, s),
                      !.onlineList = DOMAIN usm]
  ELSE [st EXCEPT !.onlineList = DOMAIN st.userSocketMap]

\* faulty variant: the presence entry is left as it was
DisconnectListenerEnhancedKeepPresence(st, s) ==
  LET u == st.connUserId[s]
  IN IF u # None
     THEN LET usm == Del(st.userSocketMap, u)
          IN [st EXCEPT !.userSocketMap = usm,
                        !.pendingOffline = @ \cup {s},
                        !.onlineList = DOMAIN usm]
     ELSE [st EXCEPT !.onlineList = DOMAIN st.userSocketMap]

DisconnectListenerEnhanced(st, s) ==
  LET u == st.connUserId[s]
  IN IF u # None
     THEN LET mine == {k \in DOMAIN st.typingUsers : k[2] = u}
              usm == Del(st.userSocketMap, u)
          IN [st EXCEPT
                !.userPresence = Put(@, u, "offline"),
                !.userSocketMap = usm,
                !.typingUsers = [k \in DOMAIN @ \ mine |-> @[k]],
                !.stops = [k \in Keys |-> IF k \in mine THEN @[k] + 1 ELSE @[k]],
                !.pendingOffline = @ \cup {s},
                !.onlineList = DOMAIN usm]
     ELSE [st EXCEPT !.onlineList = DOMAIN st.userSocketMap]

\* socket.io closes the socket (it leaves every room and io.sockets.sockets)
\* and then emits "disconnect" to whatever listener is installed by then
SocketDisconnect(st, s) ==
  LET st1 == [st EXCEPT !.connected = @ \ {s}, !.rooms[s] = {}, !.userRooms[s] = {},
                        !.moreRooms[s] = 0]
  IN IF st.handler[s] # "registered" THEN st1
     ELSE IF server = "socket" THEN DisconnectListenerSocket(st1, s)
     ELSE DisconnectListenerEnhanced(st1, s)

\* the .then of the disconnect listener's Conversation.find
OfflineBroadcast(st, s, ok) ==
  LET u == st.connUserId[s]
      reach == UNION {RoomMembers(st, c) : c \in ConvsOf(st, u)}
      st1 == [st EXCEPT !.pendingOffline = @ \ {s}]
  IN IF ok THEN Emit(st1, reach \ {s}, Event("presenceOffline", u)) ELSE st1

\* ------------------------------------------------------------- attach
Authenticate(token, q) ==
  IF token # None THEN (IF token \in Users THEN token ELSE None)
  ELSE IF q \in Users THEN q ELSE None

ConnectionSocket(st, s, token, q) ==
  LET auth == Authenticate(token, q)
      userId == IF auth # None THEN auth ELSE q
      st0 == [st EXCEPT !.connected = @ \cup {s}, !.query[s] = q,
                        !.authUser[s] = auth, !.connUserId[s] = userId]
  IN IF userId # None
     THEN LET evict == /\ userId \in DOMAIN st0.userSocketMap
                       /\ st0.userSocketMap[userId] \in st0.connected
              old == st0.userSocketMap[userId]
              st1 == IF evict
                     THEN SocketDisconnect(
                            Emit(st0, {old}, Event("connectionReplaced", None)), old)
                     ELSE st0
          IN [st1 EXCEPT !.userSocketMap = Put(@, userId, s),
                         !.socketUserMap = Put(@, s, userId),
                         !.userRooms[s] = @ \cup {userId},
                         !.handler[s] = "querying"]
     ELSE [st0 EXCEPT !.onlineList = DOMAIN st0.userSocketMap,
                      !.handler[s] = "registered"]

ConnectionEnhanced(st, s, q) ==
  LET st0 == [st EXCEPT !.connected = @ \cup {s}, !.query[s] = q,
                        !.connUserId[s] = q]
  IN IF q # None
     THEN [st0 EXCEPT !.userSocketMap = Put(@, q, s),
                      !.userPresence = Put(@, q, "online"),
                      !.handler[s] = "querying"]
     ELSE [st0 EXCEPT !.onlineList = DOMAIN st0.userSocketMap,
                      !.handler[s] = "registered"]

\* how many further conversations a user takes part in
MoreOf(st, u) == IF u \in Users THEN st.others[u] ELSE 0
Min(a, b) == IF a < b THEN a ELSE b

\* what Conversation.find({participants: userId}) can answer: every
\* conversation of the user in socket_enhanced.js; in socket.js the query ends
\* in .limit(50) and answers 50 of them when there are more, in the order of
\* the store
Answers(st, s) ==
  LET u == st.connUserId[s]
      all == [convs |-> ConvsOf(st, u), more |-> MoreOf(st, u)]
      size(a) == Cardinality(a.convs) + a.more
  IN IF server = "socket"
     THEN {a \in [convs : SUBSET all.convs, more : 0..all.more] :
             size(a) = Min(ROOM_LIMIT, size(all))}
     ELSE {all}

\* Conversation.find({participants: userId}) answers, or fails
FindAnswer(st, s, ok, answer) ==
  [st EXCEPT
     !.found[s] = IF ok THEN [ok |-> TRUE, convs |-> answer.convs, more |-> answer.more]
                  ELSE [ok |-> FALSE, convs |-> {}, more |-> 0],
     !.handler[s] = "resuming"]

\* faulty variant: the rooms are joined although the query was rejected
ResumeSocketJoinAnyway(st, s) ==
  LET st1 == [st EXCEPT !.rooms[s] = @ \cup ConvsOf(st, st.connUserId[s])]
  IN [st1 EXCEPT !.onlineList = DOMAIN st1.userSocketMap,
                 !.handler[s] = "registered"]

\* the handler continues after its await
ResumeSocket(st, s) ==
  LET st1 == IF st.found[s].ok
             THEN [st EXCEPT !.rooms[s] = @ \cup st.found[s].convs,
                             !.moreRooms[s] = st.found[s].more]
             ELSE Emit(st, {s}, Event("error", None))
  IN [st1 EXCEPT !.onlineList = DOMAIN st1.userSocketMap,
                 !.handler[s] = "registered"]

ResumeEnhanced(st, s) ==
  LET u == st.connUserId[s]
      joined == [st EXCEPT !.rooms[s] = @ \cup st.found[s].convs,
                           !.moreRooms[s] = st.found[s].more]
      reach == UNION {RoomMembers(joined, c) : c \in st.found[s].convs}
      st1 == IF st.found[s].ok
             THEN Emit(joined, reach \ {s}, Event("presenceOnline", u))
             ELSE Emit(st, {s}, Event("error", None))
  IN [st1 EXCEPT !.onlineList = DOMAIN st1.userSocketMap,
                 !.handler[s] = "registered"]

\* ------------------------------------------------------------ actions
NextSocket ==
  CHOOSE s \in Sockets :
    handler[s] = "none" /\ \A t \in Sockets : handler[t] = "none" => s <= t

\* a client attaches, with a handshake drawn from the given tokens and userIds
ConnectWith(Tokens, Queries) ==
  /\ \E s \in Sockets : handler[s] = "none"
  /\ \E q \in Queries :
       \/ /\ server = "socket"
          /\ \E token \in Tokens :
               Assign(Tag(Cur, ConnectionSocket(Cur, NextSocket, token, q), "disconnect"))
       \/ /\ server = "socket_enhanced"
          /\ Assign(ConnectionEnhanced(Cur, NextSocket, q))

Connect == ConnectWith(Ids \cup {None}, Ids \cup {None})

\* the query of a waiting handler is answered, with an outcome among Oks
DbAnswerWith(s, Oks) ==
  /\ handler[s] = "querying"
  /\ \E ok \in Oks, answer \in Answers(Cur, s) : Assign(FindAnswer(Cur, s, ok, answer))

DbAnswer(s) == DbAnswerWith(s, BOOLEAN)

Resume(s) ==
  /\ handler[s] = "resuming"
  /\ Assign(IF server = "socket" THEN ResumeSocket(Cur, s) ELSE ResumeEnhanced(Cur, s))

Disconnect(s) ==
  /\ s \in connected
  /\ Assign(Tag(Cur, SocketDisconnect(Cur, s), "disconnect"))

PresenceOffline(s) ==
  /\ s \in pendingOffline
  /\ \E ok \in BOOLEAN : Assign(OfflineBroadcast(Cur, s, ok))

\* ------------------------------------------ group membership (REST)
\* the controllers' scan of io.sockets.sockets for a handshake userId
SocketsOfQuery(st, u) == {s \in st.connected : st.query[s] = u}

\* participantId.toString() where participants was populated: the element is
\* a user document, whose string form is its inspection text and no user id
DocToString(u) == Stranger + u

RECURSIVE NotifyEach(_, _, _)
NotifyEach(st, us, name) ==
  IF us = {} THEN st
  ELSE LET u == CHOOSE x \in us : TRUE
       IN NotifyEach(Emit(st, SocketsOfQuery(st, DocToString(u)), Event(name, u)),
                     us \ {u}, name)

LeaveRoom(st, ss, c) ==
  [st EXCEPT !.rooms = [s \in Sockets |-> IF s \in ss THEN @[s] \ {c} ELSE @[s]]]

\* the pre-save hook of the conversation schema: admins are made
\* participants, and a group of more than two participants that has no admin
\* gets participants[0], here the participant of the least id
First(ps) == CHOOSE u \in ps : \A w \in ps : u <= w

preSaveConversation(st, c) ==
  LET ps == st.participants[c] \cup st.admins[c]
      as == IF Cardinality(ps) > 2 /\ st.admins[c] = {} THEN {First(ps)} ELSE st.admins[c]
  IN [st EXCEPT !.participants[c] = ps, !.admins[c] = as]

\* conversationSchema.methods.removeMember
removeMemberDoc(st, c, u) ==
  preSaveConversation([st EXCEPT !.participants[c] = @ \ {u}, !.admins[c] = @ \ {u}], c)

\* conversationSchema.methods.changeUserRole(userId, 'admin')
makeAdminDoc(st, c, u) == preSaveConversation([st EXCEPT !.admins[c] = @ \cup {u}], c)

\* faulty variant: a demotion takes the user out of the participants as well
changeUserRoleDropsMember(st, c, u, role) ==
  IF role = "admin" THEN makeAdminDoc(st, c, u)
  ELSE [st EXCEPT !.admins[c] = @ \ {u}, !.participants[c] = @ \ {u}]

\* conversationSchema.methods.changeUserRole; a participant's entry of
\* memberRoles says 'admin' exactly when the participant is in admins
changeUserRole(st, c, u, role) ==
  IF role = "admin" THEN makeAdminDoc(st, c, u)
  ELSE preSaveConversation([st EXCEPT !.admins[c] = @ \ {u}], c)

removeMember(st, c, target) ==
  LET st1 == removeMemberDoc(st, c, target)
      hit == SocketsOfQuery(st1, target)
      st2 == LeaveRoom(Emit(st1, hit, Event("removedFromGroup", target)), hit, c)
  IN NotifyEach(st2, st2.participants[c], "memberRemoved")

leaveConversation(st, c, u, newAdmin) ==
  LET transfer == u \in st.admins[c] /\ Cardinality(st.admins[c]) = 1
                    /\ Cardinality(st.participants[c]) > 1
      st1 == IF transfer THEN makeAdminDoc(st, c, newAdmin) ELSE st
      st2 == removeMemberDoc(st1, c, u)
      st3 == NotifyEach(st2, st2.participants[c], "memberLeft")
      hit == SocketsOfQuery(st3, u)
  IN LeaveRoom(Emit(st3, hit, Event("conversationLeft", u)), hit, c)

\* the controller changeMemberRole, once its checks have passed; the group
\* was loaded without populate, so that the scan finds the participants
changeMemberRole(st, c, target, role) ==
  LET st1 == changeUserRole(st, c, target, role)
  IN Emit(st1, UNION {SocketsOfQuery(st1, u) : u \in st.participants[c]},
          Event("memberRoleChanged", target))

ChangeMemberRole(c, admin, target, role) ==
  /\ server = "socket"
  /\ c \in DOMAIN participants
  /\ admin \in participants[c]
  /\ admin \in admins[c]
  /\ target \in participants[c]
  /\ ~(target = admin /\ role = "member" /\ Cardinality(admins[c]) = 1)
  /\ Assign(changeMemberRole(Cur, c, target, role))

RemoveMember(c, admin, target) ==
  /\ server = "socket"
  /\ c \in DOMAIN participants
  /\ admin \in participants[c]
  /\ admin \in admins[c]
  /\ target \in participants[c]
  /\ ~(target = admin /\ Cardinality(admins[c]) = 1)
  /\ Assign(removeMember(Cur, c, target))

LeaveConversation(c, u) ==
  /\ server = "socket"
  /\ c \in DOMAIN participants
  /\ u \in participants[c]
  /\ \E newAdmin \in participants[c] : Assign(leaveConversation(Cur, c, u, newAdmin))

MemberNext ==
  \/ \E c \in Convs, a \in Users, u \in Users : RemoveMember(c, a, u)
  \/ \E c \in Convs, u \in Users : LeaveConversation(c, u)

ConnNext ==
  \/ Connect
  \/ \E s \in Sockets : DbAnswer(s)
  \/ \E s \in Sockets : Resume(s)
  \/ \E s \in Sockets : Disconnect(s)
  \/ \E s \in Sockets : PresenceOffline(s)

Next == ConnNext \/ MemberNext

Spec == Init /\ [][Next]_vars

\* ------------------------------------------------------ typing actions
RECURSIVE SumOver(_, _)
SumOver(f, ks) ==
  IF ks = {} THEN 0
  ELSE LET k == CHOOSE x \in ks : TRUE IN f[k] + SumOver(f, ks \ {k})

\* listeners are installed once the connection handler has run to its end
Listening(s) == s \in connected /\ handler[s] = "registered"

TypingEvent(s, c, u) ==
  /\ Listening(s)
  /\ SumOver(typings, Keys) < MaxTyping
  /\ Assign(IF server = "socket" THEN handleTyping(Cur, s, c, u)
            ELSE OnTyping(Cur, s, c, u))

StopTypingEvent(s, c, u) ==
  /\ Listening(s)
  /\ Assign(Tag(Cur, IF server = "socket" THEN handleStopTyping(Cur, s, c, u)
                     ELSE OnStopTyping(Cur, s, c, u), "explicit"))

\* faulty variant: the timer callback does not stop the episode
TimerFiresIdle(st, s, c, u) == [st EXCEPT !.timers[<<c, u>>][s] = @ - 1]

\* a setTimeout armed by handleTyping fires
TimerFires(st, s, c, u) ==
  handleStopTyping([st EXCEPT !.timers[<<c, u>>][s] = @ - 1], s, c, u)

TypingTimeout(s, c, u) ==
  /\ server = "socket"
  /\ timers[<<c, u>>][s] > 0
  /\ Assign(Tag(Cur, TimerFires(Cur, s, c, u), "expiry"))

TypingCleanup ==
  /\ server = "socket_enhanced"
  /\ Assign(Tag(Cur, CleanupInterval(Cur), "expiry"))

TypingConnect == ConnectWith({None}, Users)

TypingNext ==
  \/ TypingConnect
  \/ \E s \in Sockets : DbAnswerWith(s, {TRUE})
  \/ \E s \in Sockets : Resume(s)
  \/ \E s \in Sockets : Disconnect(s)
  \/ \E s \in Sockets, c \in Convs, u \in Users : TypingEvent(s, c, u)
  \/ \E s \in Sockets, c \in Convs, u \in Users : StopTypingEvent(s, c, u)
  \/ \E s \in Sockets, c \in Convs, u \in Users : TypingTimeout(s, c, u)
  \/ TypingCleanup

TypingSpec == Init /\ [][TypingNext]_vars

\* Node's event loop runs every armed timer and every interval callback
TimerOrInterval ==
  \/ \E s \in Sockets, c \in Convs, u \in Users : TypingTimeout(s, c, u)
  \/ TypingCleanup

TypingLive == TypingSpec /\ WF_vars(TimerOrInterval)

\* ================================================== delivery and read
\* The delivered and the read entries of a message are bags of [userId, at]
\* (the code never reads an entry by its position): deliveredTo / readBy in
\* the socket layer and in getMessages, deliveryStatus.delivered /
\* deliveryStatus.read in the schema methods.
Has(entries, u) == \E e \in BagToSet(entries) : e.userId = u
Entry(u, at) == [userId |-> u, at |-> at]
Push(entries, e) == entries (+) SetToBag({e})

\* getReceiverSocketId(key) and io.to(senderSocketId).emit; key is the string
\* the handler made of message.senderId
NotifySender(st, m, key, status, u) ==
  IF key \in DOMAIN st.userSocketMap
  THEN Emit([st EXCEPT !.statusUpdates = Push(@, <<m, status, u>>)],
            {st.userSocketMap[key]}, Event("messageStatusUpdate", u))
  ELSE st

\* messageSchema.methods.markAsDelivered: the push it makes; wasDelivered is
\* what the loaded document says of the user
markAsDelivered(doc, u, wasDelivered, at) ==
  IF wasDelivered THEN doc
  ELSE [doc EXCEPT !.delivered = Push(@, Entry(u, at))]

\* messageSchema.methods.markAsRead: the pushes it makes; the two new Date()
\* calls read the clock at readAt and then at deliveredAt
markAsRead(doc, u, wasRead, wasDelivered, readAt, deliveredAt) ==
  IF wasRead THEN doc
  ELSE markAsDelivered([doc EXCEPT !.read = Push(@, Entry(u, readAt))],
                       u, wasDelivered, deliveredAt)

\* a new message document: its delivery state is empty
NewMessage(sender, receiver, c) ==
  [senderId |-> sender, receiverId |-> receiver, conversationId |-> c,
   delivered |-> EmptyBag, read |-> EmptyBag, reactions |-> <<>>, v |-> 0]

\* the validation save() runs: the message schema requires receiverId
Valid(doc) == doc.receiverId # None

\* sendMessage: the document it builds has no receiverId, so that its save()
\* rejects and the handler answers 500; what follows the save (the broadcast
\* to the conversation room, markAsDelivered for the sender) is not reached
Response(op, sender, c, status) ==
  [op |-> op, sender |-> sender, conv |-> c, status |-> status]

sendMessage(st, m, sender, c) ==
  LET doc == NewMessage(sender, None, c)
      sent == Emit(st, RoomMembers(st, c), Event("newMessage", sender))
  IN IF Valid(doc)
     THEN [sent EXCEPT !.messages = Put(@, m, markAsDelivered(doc, sender, FALSE, st.now)),
                       !.response = Response("sendMessage", sender, c, 201)]
     ELSE [st EXCEPT !.response = Response("sendMessage", sender, c, 500)]

\* the message controller of the conversation routes persists a message for
\* a participant of the conversation, with an empty delivery state
StoreMessage(st, m, sender, c) ==
  [st EXCEPT !.messages = Put(@, m, NewMessage(sender, c, c))]

\* getMessages: MessageEnhanced.getMessagesPaginated is no static of the
\* schema, the call throws and the handler answers 500 before it marks
\* anything delivered
getMessages(st, c, u) == st

\* a handler that has loaded message m and has not written yet
Loaded(st, kind, m, u) ==
  [kind |-> kind, m |-> m, u |-> u,
   wasRead |-> Has(st.messages[m].read, u),
   wasDelivered |-> Has(st.messages[m].delivered, u)]

\* socket.on("messageDelivered") / socket.on("messageRead"): the load and check
ReceiptLoad(st, kind, m, u) ==
  LET op == Loaded(st, kind, m, u)
      already == IF kind = "delivered" THEN op.wasDelivered ELSE op.wasRead
  IN IF already THEN st ELSE [st EXCEPT !.inFlight = Push(@, op)]

\* ... and the $push and the notification of the sender
ReceiptWrite(st, op) ==
  LET pushed == IF op.kind = "delivered"
                THEN [st EXCEPT !.messages[op.m].delivered = Push(@, Entry(op.u, st.now))]
                ELSE [st EXCEPT !.messages[op.m].read = Push(@, Entry(op.u, st.now))]
  IN NotifySender([pushed EXCEPT !.inFlight = @ (-) SetToBag({op})], op.m,
                  st.messages[op.m].senderId, op.kind, op.u)

\* markMessageAsRead: findById and the access check
RestReadLoad(st, m, u) ==
  IF u \in st.participants[st.messages[m].conversationId]
  THEN [st EXCEPT !.inFlight = Push(@, Loaded(st, "rest", m, u))]
  ELSE st

\* ... then message.markAsRead(userId), whose pushes save() appends to the
\* stored arrays, and the notification of the sender. dt is the time that
\* passes between the two new Date() calls. markAsRead calls save() while the
\* save() started by its markAsDelivered is still in progress; rejected says
\* that Mongoose refused that second call, which sends the handler to its
\* catch block before the notification. The schema's pre-find hook populates
\* senderId, so that message.senderId.toString() is the text of a user
\* document.
RestReadSave(st, op, dt, rejected) ==
  LET saved == [st EXCEPT
                  !.messages[op.m] = markAsRead(@, op.u, op.wasRead, op.wasDelivered,
                                                st.now, st.now + dt),
                  !.now = @ + dt,
                  !.inFlight = @ (-) SetToBag({op})]
      key == DocToString(st.messages[op.m].senderId)
  IN IF key # op.u /\ ~rejected
     THEN NotifySender(saved, op.m, key, "read", op.u)
     ELSE saved

\* the outcomes of the second save(): it overlaps a first one only when
\* markAsRead called markAsDelivered, which always ends in save()
SaveOutcomes(op) == IF ~op.wasRead THEN BOOLEAN ELSE {FALSE}

\* the id the store gives the next message
NextMessage == Cardinality(DOMAIN messages) + 1

SendMessage(sender, c) ==
  /\ server = "socket_enhanced"
  /\ DOMAIN messages # MsgIds
  /\ sender \in participants[c]
  /\ Assign(sendMessage(Cur, NextMessage, sender, c))

MessageStored(sender, c) ==
  /\ DOMAIN messages # MsgIds
  /\ sender \in participants[c]
  /\ Assign(StoreMessage(Cur, NextMessage, sender, c))

GetMessages(c, u) ==
  /\ server = "socket_enhanced"
  /\ u \in participants[c]
  /\ Assign(getMessages(Cur, c, u))

MessageReceipt(s, kind, m, u) ==
  /\ server = "socket_enhanced"
  /\ Listening(s)
  /\ m \in DOMAIN messages
  /\ BagCardinality(inFlight) < MaxInFlight
  /\ BagCardinality(statusUpdates) < MaxUpdates
  /\ Assign(ReceiptLoad(Cur, kind, m, u))

MessageReceiptWrite(op) ==
  /\ op.kind # "rest"
  /\ Assign(ReceiptWrite(Cur, op))

MarkMessageAsRead(m, u) ==
  /\ server = "socket_enhanced"
  /\ m \in DOMAIN messages
  /\ BagCardinality(inFlight) < MaxInFlight
  /\ BagCardinality(statusUpdates) < MaxUpdates
  /\ Assign(RestReadLoad(Cur, m, u))

MarkMessageAsReadSave(op) ==
  /\ op.kind = "rest"
  /\ \E dt \in 0..1, rejected \in SaveOutcomes(op) :
       now + dt <= MaxClock /\ Assign(RestReadSave(Cur, op, dt, rejected))

Tick ==
  /\ now < MaxClock
  /\ Assign([Cur EXCEPT !.now = @ + 1])

\* in the receipt specifications one user attaches, so that a message has an
\* attached sender or an absent one according to who sent it
DeliveryConnect == ConnectWith({None}, {1})

DeliveryNext ==
  \/ DeliveryConnect
  \/ \E s \in Sockets : DbAnswerWith(s, {TRUE})
  \/ \E s \in Sockets : Resume(s)
  \/ \E u \in Users, c \in Convs : MessageStored(u, c)
  \/ \E u \in Users, c \in Convs : GetMessages(c, u)
  \/ \E s \in Sockets, kind \in {"delivered", "read"}, m \in MsgIds, u \in Users :
       MessageReceipt(s, kind, m, u)
  \/ \E op \in BagToSet(inFlight) : MessageReceiptWrite(op)
  \/ \E m \in MsgIds, u \in Users : MarkMessageAsRead(m, u)
  \/ \E op \in BagToSet(inFlight) : MarkMessageAsReadSave(op)
  \/ Tick

DeliverySpec == Init /\ [][DeliveryNext]_vars

\* the receipt events of the socket layer alone; the userId of an event is
\* whatever the client put in its payload
ReceiptNext ==
  \/ DeliveryConnect
  \/ \E s \in Sockets : DbAnswerWith(s, {TRUE})
  \/ \E s \in Sockets : Resume(s)
  \/ \E u \in Users, c \in Convs : MessageStored(u, c)
  \/ \E s \in Sockets, kind \in {"delivered", "read"}, m \in MsgIds, u \in Ids :
       MessageReceipt(s, kind, m, u)
  \/ \E op \in BagToSet(inFlight) : MessageReceiptWrite(op)

ReceiptSpec == Init /\ [][ReceiptNext]_vars

\* sending and acknowledging: both users attach
SendConnect == ConnectWith({None}, Users)

SendNext ==
  \/ SendConnect
  \/ \E s \in Sockets : DbAnswerWith(s, {TRUE})
  \/ \E s \in Sockets : Resume(s)
  \/ \E u \in Users, c \in Convs : SendMessage(u, c)
  \/ \E u \in Users, c \in Convs : MessageStored(u, c)
  \/ \E s \in Sockets, m \in MsgIds, u \in Users : MessageReceipt(s, "delivered", m, u)
  \/ \E op \in BagToSet(inFlight) : MessageReceiptWrite(op)

SendSpec == Init /\ [][SendNext]_vars

\* ===================================================== claims, receipts
\* C10: a recipient with a read entry has a delivered entry that is not
\* later than the read entry.
C10_ReadImpliesDelivered ==
  \A m \in DOMAIN messages :
    \A r \in BagToSet(messages[m].read) :
      \E d \in BagToSet(messages[m].delivered) :
        d.userId = r.userId /\ d.at <= r.at

\* the number of entries a bag of entries holds for user u
Count(entries, u) ==
  BagCardinality([e \in {x \in BagToSet(entries) : x.userId = u} |-> entries[e]])

\* C11: the sender of a message is never in the message's delivered set nor
\* in its read set.
C11_SenderNotInDeliveryState ==
  \A m \in DOMAIN messages :
    /\ ~Has(messages[m].delivered, messages[m].senderId)
    /\ ~Has(messages[m].read, messages[m].senderId)

\* C12: a step changes neither the delivered entries nor the read entries of
\* a user who is no participant of the message's conversation, and sends no
\* messageStatusUpdate about that user.
C12_NonParticipantIsNoOp ==
  [][\A m \in DOMAIN messages, u \in Ids :
       u \notin participants[messages[m].conversationId] =>
         /\ Count(messages'[m].delivered, u) = Count(messages[m].delivered, u)
         /\ Count(messages'[m].read, u) = Count(messages[m].read, u)
         /\ \A status \in {"delivered", "read"} :
              CopiesIn(<<m, status, u>>, statusUpdates')
                = CopiesIn(<<m, status, u>>, statusUpdates)]_vars

\* C13: the delivered set and the read set of a message hold at most one
\* entry for a user.
C13_AtMostOneEntryPerUser ==
  \A m \in DOMAIN messages, u \in Ids :
    Count(messages[m].delivered, u) <= 1 /\ Count(messages[m].read, u) <= 1

\* C14: the sender is sent at most one delivered and at most one read
\* messageStatusUpdate for a message and a recipient.
C14_AtMostOneStatusUpdate ==
  \A k \in BagToSet(statusUpdates) : CopiesIn(k, statusUpdates) <= 1

\* ------------------------------------------------------------ reactions
\* message.reactions is an array of {emoji, users, count}; users is an array
Range(seq) == {seq[i] : i \in DOMAIN seq}
RemoveAt(seq, i) == SubSeq(seq, 1, i - 1) \o SubSeq(seq, i + 1, Len(seq))

\* reactions.findIndex(r => r.emoji === emoji), 0 when there is none
FindIndex(rs, e) ==
  IF \E i \in DOMAIN rs : rs[i].emoji = e
  THEN CHOOSE i \in DOMAIN rs :
         rs[i].emoji = e /\ \A j \in DOMAIN rs : rs[j].emoji = e => i <= j
  ELSE 0

\* users.indexOf(userId), 0 when the user is not in the array
IndexOf(users, u) ==
  IF u \in Range(users)
  THEN CHOOSE i \in DOMAIN users :
         users[i] = u /\ \A j \in DOMAIN users : users[j] = u => i <= j
  ELSE 0

\* the users recorded for an emoji, over every entry of that emoji
UsersOf(rs, e) == UNION {Range(rs[i].users) : i \in {j \in DOMAIN rs : rs[j].emoji = e}}

NewReaction(e, u) == [emoji |-> e, users |-> <<u>>, count |-> 1]

\* the pre-save hook of the message schema
IsCounted(r) == r.count > 0
preSave(rs) ==
  SelectSeq([i \in DOMAIN rs |-> [rs[i] EXCEPT !.count = Len(rs[i].users)]], IsCounted)

\* messageSchema.methods.addReaction, with the save() it ends in
addReactionTwice(rs, e, u) ==
  LET i == FindIndex(rs, e)
  IN preSave(IF i # 0
             THEN [rs EXCEPT ![i].users = Append(@, u), ![i].count = @ + 1]
             ELSE Append(rs, NewReaction(e, u)))

addReaction(rs, e, u) ==
  LET i == FindIndex(rs, e)
  IN preSave(IF i # 0
             THEN IF IndexOf(rs[i].users, u) = 0
                  THEN [rs EXCEPT ![i].users = Append(@, u), ![i].count = @ + 1]
                  ELSE rs
             ELSE Append(rs, NewReaction(e, u)))

\* messageSchema.methods.removeReaction, with the save() it ends in
removeReaction(rs, e, u) ==
  LET i == FindIndex(rs, e)
      k == IndexOf(rs[i].users, u)
      spliced == [rs EXCEPT ![i].users = RemoveAt(@, k), ![i].count = @ - 1]
  IN preSave(IF i # 0 /\ k # 0
             THEN IF spliced[i].count = 0 THEN RemoveAt(spliced, i) ELSE spliced
             ELSE rs)

\* the payload of a reaction broadcast; before is the emoji's user set when
\* the handler loaded the message
Reaction(name, m, e, u, carried, count, before) ==
  [name |-> name, m |-> m, emoji |-> e, userId |-> u, carried |-> carried,
   count |-> count, before |-> before]

Broadcast(st, c, ev) ==
  [Emit(st, RoomMembers(st, c), Event(ev.name, ev.userId)) EXCEPT !.lastReaction = ev]

\* the controllers addReaction and removeReaction: access check, the model
\* method, a broadcast that carries no count
addReactionReq(st, m, e, u) ==
  LET doc == st.messages[m]
  IN IF u \in st.participants[doc.conversationId]
     THEN Broadcast([st EXCEPT !.messages[m].reactions = addReaction(@, e, u)],
                    doc.conversationId,
                    Reaction("reactionAdded", m, e, u, FALSE, 0, UsersOf(doc.reactions, e)))
     ELSE st

removeReactionReq(st, m, e, u) ==
  LET doc == st.messages[m]
  IN IF u \in st.participants[doc.conversationId]
     THEN Broadcast([st EXCEPT !.messages[m].reactions = removeReaction(@, e, u)],
                    doc.conversationId,
                    Reaction("reactionRemoved", m, e, u, FALSE, 0, UsersOf(doc.reactions, e)))
     ELSE st

\* socket.on("addReaction"): reactionCount is the entry's count, 1 for a new entry
OnAddReaction(st, m, e, u) ==
  LET doc == st.messages[m]
      rs == doc.reactions
      i == FindIndex(rs, e)
      added == IF i # 0
               THEN IF IndexOf(rs[i].users, u) = 0
                    THEN [rs EXCEPT ![i].users = Append(@, u),
                                    ![i].count = Len(rs[i].users) + 1]
                    ELSE rs
               ELSE Append(rs, NewReaction(e, u))
  IN Broadcast([st EXCEPT !.messages[m].reactions = added], doc.conversationId,
               Reaction("reactionAdded", m, e, u, TRUE,
                        IF i # 0 THEN added[i].count ELSE 1, UsersOf(rs, e)))

\* users.filter(id => id.toString() !== userId)
IsNot(u) == [x \in Ids |-> x # u]
Without(users, u) == LET keep(x) == IsNot(u)[x] IN SelectSeq(users, keep)

\* socket.on("removeReaction"): nothing happens when the emoji has no entry
OnRemoveReactionKeep(st, m, e, u) ==
  LET doc == st.messages[m]
      rs == doc.reactions
      i == FindIndex(rs, e)
      left == Without(rs[i].users, u)
      filtered == [rs EXCEPT ![i].users = left, ![i].count = Len(left)]
  IN IF i # 0
     THEN Broadcast([st EXCEPT !.messages[m].reactions = filtered], doc.conversationId,
                    Reaction("reactionRemoved", m, e, u, TRUE, Len(left), UsersOf(rs, e)))
     ELSE st

OnRemoveReaction(st, m, e, u) ==
  LET doc == st.messages[m]
      rs == doc.reactions
      i == FindIndex(rs, e)
      left == Without(rs[i].users, u)
      filtered == [rs EXCEPT ![i].users = left, ![i].count = Len(left)]
      isOther(r) == r.emoji # e
      kept == IF Len(left) = 0 THEN SelectSeq(filtered, isOther) ELSE filtered
  IN IF i # 0
     THEN Broadcast([st EXCEPT !.messages[m].reactions = kept], doc.conversationId,
                    Reaction("reactionRemoved", m, e, u, TRUE, Len(left), UsersOf(rs, e)))
     ELSE st

AddReaction(m, e, u) ==
  /\ server = "socket_enhanced"
  /\ m \in DOMAIN messages
  /\ Assign(addReactionReq(Cur, m, e, u))

RemoveReaction(m, e, u) ==
  /\ server = "socket_enhanced"
  /\ m \in DOMAIN messages
  /\ Assign(removeReactionReq(Cur, m, e, u))

AddReactionEvent(s, m, e, u) ==
  /\ server = "socket_enhanced"
  /\ Listening(s)
  /\ m \in DOMAIN messages
  /\ Assign(OnAddReaction(Cur, m, e, u))

RemoveReactionEvent(s, m, e, u) ==
  /\ server = "socket_enhanced"
  /\ Listening(s)
  /\ m \in DOMAIN messages
  /\ Assign(OnRemoveReaction(Cur, m, e, u))

ReactionNext ==
  \/ DeliveryConnect
  \/ \E s \in Sockets : DbAnswerWith(s, {TRUE})
  \/ \E s \in Sockets : Resume(s)
  \/ \E c \in Convs : MessageStored(1, c)
  \/ \E m \in MsgIds, e \in Emojis, u \in Ids : AddReaction(m, e, u)
  \/ \E m \in MsgIds, e \in Emojis, u \in Ids : RemoveReaction(m, e, u)
  \/ \E s \in Sockets, m \in MsgIds, e \in Emojis, u \in Users : AddReactionEvent(s, m, e, u)
  \/ \E s \in Sockets, m \in MsgIds, e \in Emojis, u \in Users : RemoveReactionEvent(s, m, e, u)

ReactionSpec == Init /\ [][ReactionNext]_vars

\* C15: the count stored with an emoji, and the count a reactionAdded or
\* reactionRemoved event carries, is the number of distinct users recorded
\* for that emoji; adding a user who is already recorded changes nothing.
C15_CountIsDistinctUsers ==
  /\ \A m \in DOMAIN messages : \A i \in DOMAIN messages[m].reactions :
       LET r == messages[m].reactions[i]
       IN /\ r.count = Cardinality(Range(r.users))
          /\ Len(r.users) = Cardinality(Range(r.users))
          /\ Range(r.users) = UsersOf(messages[m].reactions, r.emoji)
  /\ lastReaction.name # "none" =>
       LET now_ == UsersOf(messages[lastReaction.m].reactions, lastReaction.emoji)
       IN /\ lastReaction.carried => lastReaction.count = Cardinality(now_)
          /\ (lastReaction.name = "reactionAdded"
                /\ lastReaction.userId \in lastReaction.before)
               => now_ = lastReaction.before

C15_Witness ==
  /\ lastReaction.name = "reactionAdded"
  /\ lastReaction.carried
  /\ lastReaction.count = 2
  /\ lastReaction.userId \in lastReaction.before

\* C16: removing a user's reaction deletes the emoji's entry exactly when no
\* user is left for the emoji, otherwise the entry stays with the others; no
\* stored entry has an empty user set.
C16_EntryDeletedWhenEmpty ==
  /\ \A m \in DOMAIN messages : \A i \in DOMAIN messages[m].reactions :
       messages[m].reactions[i].users # <<>>
  /\ lastReaction.name = "reactionRemoved" =>
       LET rs == messages[lastReaction.m].reactions
           left == lastReaction.before \ {lastReaction.userId}
       IN /\ UsersOf(rs, lastReaction.emoji) = left
          /\ (FindIndex(rs, lastReaction.emoji) = 0) <=> (left = {})

C16_Witness ==
  /\ lastReaction.name = "reactionRemoved"
  /\ Cardinality(lastReaction.before) = 2
  /\ lastReaction.userId \in lastReaction.before
  /\ FindIndex(messages[lastReaction.m].reactions, lastReaction.emoji) # 0
  /\ lastReaction.carried /\ lastReaction.count = 1

\* ------------------------------------------------- rejected writes
\* the catch block of a handler whose write was rejected: console.error
Failed(st) == [st EXCEPT !.writeErrors = @ + 1]

\* faulty variant: the sender is notified before the $push is awaited
ReceiptOutcomeNotifyFirst(st, op, ok) ==
  IF ok THEN ReceiptWrite(st, op)
  ELSE NotifySender(Failed([st EXCEPT !.inFlight = @ (-) SetToBag({op})]), op.m,
                    st.messages[op.m].senderId, op.kind, op.u)

\* the $push of a receipt handler succeeds, or rejects
ReceiptOutcome(st, op, ok) ==
  IF ok THEN ReceiptWrite(st, op)
  ELSE Failed([st EXCEPT !.inFlight = @ (-) SetToBag({op})])

\* message.save() of a reaction handler succeeds, or rejects
AddReactionOutcome(st, m, e, u, ok) == IF ok THEN OnAddReaction(st, m, e, u) ELSE Failed(st)
RemoveReactionOutcome(st, m, e, u, ok) ==
  IF ok THEN OnRemoveReaction(st, m, e, u)
  ELSE IF FindIndex(st.messages[m].reactions, e) # 0 THEN Failed(st) ELSE st

\* io.to(room).emit("newMessage"): every socket of the room is sent a copy
EmitNewMessage(st, targets, m, sender) ==
  LET live == targets \cap st.connected
  IN [Emit(st, live, Event("newMessage", sender)) EXCEPT
        !.copies = @ (+) SetToBag({<<s, m>> : s \in live})]

\* the sockets of the room user_<id>
UserRoomMembers(st, u) == {s \in st.connected : u \in st.userRooms[s]}

RECURSIVE EmitToUserRooms(_, _, _, _)
EmitToUserRooms(st, us, m, sender) ==
  IF us = {} THEN st
  ELSE LET u == CHOOSE x \in us : TRUE
       IN EmitToUserRooms(EmitNewMessage(st, UserRoomMembers(st, u), m, sender),
                          us \ {u}, m, sender)

\* sendMessage of the conversation routes: the message is saved in a
\* transaction; once that has committed, newMessage goes to the conversation
\* room and to the user room of every participant
sendMessageTransaction(st, m, sender, c, ok) ==
  IF sender \notin st.participants[c]
  THEN [st EXCEPT !.response = Response("sendMessage", sender, c, 404)]
  ELSE IF ~ok
  THEN [Failed(st) EXCEPT !.response = Response("sendMessage", sender, c, 500)]
  ELSE LET saved == StoreMessage(st, m, sender, c)
           toRoom == EmitNewMessage(saved, RoomMembers(saved, c), m, sender)
           toUsers == EmitToUserRooms(toRoom, st.participants[c], m, sender)
       IN [toUsers EXCEPT !.response = Response("sendMessage", sender, c, 201)]

SendMessageTransaction(sender, c) ==
  /\ server = "socket"
  /\ DOMAIN messages # MsgIds
  /\ c \in DOMAIN participants
  /\ \E ok \in BOOLEAN :
       /\ ok \/ writeErrors < MaxWriteErrors
       /\ Assign(sendMessageTransaction(Cur, NextMessage, sender, c, ok))

MessageReceiptWriteOutcome(op) ==
  /\ op.kind # "rest"
  /\ \E ok \in BOOLEAN :
       /\ ok \/ writeErrors < MaxWriteErrors
       /\ Assign(ReceiptOutcome(Cur, op, ok))

AddReactionEventOutcome(s, m, e, u) ==
  /\ server = "socket_enhanced"
  /\ Listening(s)
  /\ m \in DOMAIN messages
  /\ \E ok \in BOOLEAN :
       /\ ok \/ writeErrors < MaxWriteErrors
       /\ Assign(AddReactionOutcome(Cur, m, e, u, ok))

RemoveReactionEventOutcome(s, m, e, u) ==
  /\ server = "socket_enhanced"
  /\ Listening(s)
  /\ m \in DOMAIN messages
  /\ \E ok \in BOOLEAN :
       /\ ok \/ writeErrors < MaxWriteErrors
       /\ Assign(RemoveReactionOutcome(Cur, m, e, u, ok))

WriteNext ==
  \/ DeliveryConnect
  \/ \E s \in Sockets : DbAnswerWith(s, {TRUE})
  \/ \E s \in Sockets : Resume(s)
  \/ \E u \in Users, c \in Convs : SendMessageTransaction(u, c)
  \/ \E c \in Convs : MessageStored(1, c)
  \/ \E s \in Sockets, kind \in {"delivered", "read"}, m \in MsgIds :
       MessageReceipt(s, kind, m, 2)
  \/ \E op \in BagToSet(inFlight) : MessageReceiptWriteOutcome(op)
  \/ \E s \in Sockets, m \in MsgIds, u \in Users : AddReactionEventOutcome(s, m, 1, u)
  \/ \E s \in Sockets, m \in MsgIds, u \in Users : RemoveReactionEventOutcome(s, m, 1, u)

WriteSpec == Init /\ [][WriteNext]_vars

\* ------------------------------------------ overlapping reaction requests
\* a request of the controllers addReaction / removeReaction that has loaded
\* the message: the reactions and the __v of the document it holds
ReactionOp(kind, m, e, u, doc) ==
  [kind |-> kind, m |-> m, emoji |-> e, u |-> u, reactions |-> doc.reactions, v |-> doc.v]

\* MessageEnhanced.findById and the access check
ReactionLoad(st, kind, m, e, u) ==
  LET doc == st.messages[m]
  IN IF u \in st.participants[doc.conversationId]
     THEN [st EXCEPT !.reactionOps = @ \cup {ReactionOp(kind, m, e, u, doc)}]
     ELSE st

\* the model method applied to the loaded document
Modified(op) ==
  IF op.kind = "add" THEN addReaction(op.reactions, op.emoji, op.u)
  ELSE removeReaction(op.reactions, op.emoji, op.u)

\* the push of a new entry is a $push on the path reactions, which save()
\* sends without a condition on __v unless the pre-save hook's assignment of
\* the array has made it a $set of the array
IsNewEntry(op) == op.kind = "add" /\ FindIndex(op.reactions, op.emoji) = 0

\* a change inside an entry, a splice, or a $set of the array is sent with
\* the condition that __v is still the loaded one
Rejected(st, op, checked) ==
  /\ Modified(op) # op.reactions
  /\ checked
  /\ st.messages[op.m].v # op.v

\* this.save() at the end of the model method, then the broadcast; a save
\* that matches no document rejects with a VersionError and the controller
\* answers 500
ReactionSave(st, op, checked) ==
  LET done == [st EXCEPT !.reactionOps = @ \ {op}]
      c == st.messages[op.m].conversationId
      name == IF op.kind = "add" THEN "reactionAdded" ELSE "reactionRemoved"
      ev == Reaction(name, op.m, op.emoji, op.u, FALSE, 0, UsersOf(op.reactions, op.emoji))
  IN IF Modified(op) = op.reactions THEN Broadcast(done, c, ev)
     ELSE IF Rejected(st, op, checked) THEN Failed(done)
     ELSE IF checked
     THEN Broadcast([done EXCEPT !.messages[op.m].reactions = Modified(op),
                                 !.messages[op.m].v = @ + 1], c, ev)
     ELSE Broadcast([done EXCEPT
                       !.messages[op.m].reactions = Append(@, NewReaction(op.emoji, op.u)),
                       !.messages[op.m].v = @ + 1], c, ev)

\* a user has one request at a time
ReactionRequest(kind, m, e, u) ==
  /\ server = "socket_enhanced"
  /\ m \in DOMAIN messages
  /\ messages[m].v < MaxVersion
  /\ Cardinality(reactionOps) < MaxInFlight
  /\ \A op \in reactionOps : op.u # u
  /\ Assign(ReactionLoad(Cur, kind, m, e, u))

ReactionSaved(op) ==
  \E checked \in BOOLEAN :
    /\ checked \/ IsNewEntry(op)
    /\ Rejected(Cur, op, checked) => writeErrors < MaxWriteErrors
    /\ Assign(ReactionSave(Cur, op, checked))

OverlapNext ==
  \/ \E c \in Convs : MessageStored(1, c)
  \/ \E kind \in {"add", "remove"}, m \in MsgIds, e \in Emojis, u \in Users :
       ReactionRequest(kind, m, e, u)
  \/ \E op \in reactionOps : ReactionSaved(op)

OverlapSpec == Init /\ [][OverlapNext]_vars

\* ------------------------------------------------------- rooms at attach
\* users take part in few conversations, or in about as many as socket.js
\* asks the store for
AttachInit == InitBut /\ Groups /\ others \in [Users -> {0, ROOM_LIMIT - 1, ROOM_LIMIT}]

AttachNext ==
  \/ ConnectWith({None}, Users)
  \/ \E s \in Sockets : DbAnswer(s)
  \/ \E s \in Sockets : Resume(s)
  \/ \E s \in Sockets : Disconnect(s)
  \/ \E s \in Sockets : PresenceOffline(s)

AttachSpec == AttachInit /\ [][AttachNext]_vars

\* C17: a connection whose attach completed for a user is in at most 50
\* conversation rooms, and in the room of every conversation of the user when
\* the user has at most 50.
C17_RoomsAtAttach ==
  \A s \in connected :
    (handler[s] = "registered" /\ found[s].ok /\ connUserId[s] \in Users) =>
      LET u == connUserId[s]
      IN /\ Cardinality(rooms[s]) + moreRooms[s] <= ROOM_LIMIT
         /\ Cardinality(ConvsOf(Cur, u)) + others[u] <= ROOM_LIMIT
              => rooms[s] = ConvsOf(Cur, u) /\ moreRooms[s] = others[u]

\* ------------------------------------------- becoming a participant (REST)
JoinRoom(st, ss, c) ==
  [st EXCEPT !.rooms = [s \in Sockets |-> IF s \in ss THEN @[s] \cup {c} ELSE @[s]]]

\* the sockets whose handshake userId is one of the ids
SocketsOfQueries(st, us) == UNION {SocketsOfQuery(st, u) : u \in us}

\* createConversation for a group chat: fewer than two participants are
\* refused; every socket whose handshake userId is a participant joins the
\* room and is sent conversationCreated
createConversation(st, c, userId, members) ==
  LET allParticipants == {userId} \cup members
      saved == [st EXCEPT !.participants = Put(@, c, allParticipants),
                          !.admins = Put(@, c, {userId})]
      hit == SocketsOfQueries(saved, allParticipants)
  IN IF members = {} \/ Cardinality(allParticipants) < 2 THEN st
     ELSE Emit(JoinRoom(saved, hit, c), hit, Event("conversationCreated", userId))

Invitation(c, inviter, invitee) ==
  [groupId |-> c, inviterId |-> inviter, inviteeId |-> invitee]

\* GroupInvitation.canInviteUser
canInviteUser(st, c, inviter, invitee) ==
  /\ ~\E i \in st.invitations : i.groupId = c /\ i.inviteeId = invitee
  /\ invitee \notin st.participants[c]
  /\ inviter \in st.admins[c]

\* inviteToGroup, for one invited user
inviteToGroup(st, c, inviter, invitee) ==
  IF /\ c \in DOMAIN st.participants
     /\ inviter \in st.participants[c]
     /\ inviter \in st.admins[c]
     /\ canInviteUser(st, c, inviter, invitee)
     /\ invitee \in Users
  THEN Emit([st EXCEPT !.invitations = @ \cup {Invitation(c, inviter, invitee)}],
            SocketsOfQuery(st, invitee), Event("groupInvitationReceived", inviter))
  ELSE st

\* conversationSchema.methods.addMember
addMember(st, c, u) == [st EXCEPT !.participants[c] = @ \cup {u}]

\* respondToInvitation; the inviter was populated, so that its string form
\* is no user id
respondToInvitation(st, inv, action, isExpired) ==
  LET u == inv.inviteeId
      c == inv.groupId
      answered == [st EXCEPT !.invitations = @ \ {inv}]
      added == addMember(answered, c, u)
      joined == JoinRoom(added, SocketsOfQuery(added, u), c)
      told == Emit(joined, SocketsOfQueries(joined, added.participants[c]),
                   Event("memberJoined", u))
      inviter == DocToString(inv.inviterId)
  IN IF inv \notin st.invitations THEN st
     ELSE IF isExpired THEN answered
     ELSE IF action = "accept"
          THEN IF u \in st.participants[c] THEN answered
               ELSE Emit(told, SocketsOfQuery(told, inviter), Event("invitationAccepted", u))
          ELSE Emit(answered, SocketsOfQuery(answered, inviter),
                    Event("invitationDeclined", u))

CreateConversation(c, userId, members) ==
  /\ server = "socket"
  /\ c \notin DOMAIN participants
  /\ Assign(createConversation(Cur, c, userId, members))

InviteToGroup(c, inviter, invitee) ==
  /\ server = "socket"
  /\ Assign(inviteToGroup(Cur, c, inviter, invitee))

RespondToInvitation(inv, action) ==
  /\ server = "socket"
  /\ \E isExpired \in BOOLEAN : Assign(respondToInvitation(Cur, inv, action, isExpired))

\* no conversation is stored yet
NoGroups == participants = EmptyMap /\ admins = EmptyMap

JoinInit == InitBut /\ NoGroups /\ others = [u \in Users |-> 0]

\* a connection names its user by a token alone, or by the query alone
JoinConnect == ConnectWith(Users, {None}) \/ ConnectWith({None}, Users)

JoinNext ==
  \/ JoinConnect
  \/ \E s \in Sockets : DbAnswerWith(s, {TRUE})
  \/ \E s \in Sockets : Resume(s)
  \/ \E c \in Convs, u \in Users, us \in SUBSET Users : CreateConversation(c, u, us)
  \/ \E c \in Convs, a \in Users, u \in Ids : InviteToGroup(c, a, u)
  \/ \E inv \in invitations, action \in {"accept", "decline"} : RespondToInvitation(inv, action)
  \/ \E c \in Convs, a \in Users, u \in Users : RemoveMember(c, a, u)

JoinSpec == JoinInit /\ [][JoinNext]_vars

\* the participants of a conversation, none while it is not stored
Members(ps, c) == IF c \in DOMAIN ps THEN ps[c] ELSE {}

\* C18: in the step that makes a user a participant of a conversation, the
\* live connection registered for that user, its attach completed, is put in
\* the conversation's room.
C18_NewParticipantJoinsRoom ==
  [][\A c \in Convs, u \in Users :
       (/\ u \notin Members(participants, c)
        /\ u \in Members(participants', c)
        /\ u \in DOMAIN userSocketMap
        /\ userSocketMap[u] \in connected
        /\ handler[userSocketMap[u]] = "registered")
         => c \in rooms'[userSocketMap[u]]]_vars

\* ===================================================== claims, registry
\* the user a connection was admitted for, and the newest such connection
Admitted(s) == handler[s] # "none" /\ connUserId[s] # None
Newest(s) == \A t \in Sockets : connUserId[t] = connUserId[s] => t <= s

\* C1: at most one live admitted connection per user; a second attach for
\* the same user evicts the first, which is sent connectionReplaced.
C1_OneConnectionPerUser ==
  \A s \in connected, t \in connected :
    (Admitted(s) /\ Admitted(t) /\ connUserId[s] = connUserId[t]) => s = t

\* C2: the disconnect of a superseded connection leaves the registry entry
\* of the newer connection in place: while the newest connection admitted
\* for a user is live, the registry maps the user to it.
C2_StaleDisconnectKeepsMapping ==
  \A s \in connected :
    (Admitted(s) /\ Newest(s)) =>
      /\ connUserId[s] \in DOMAIN userSocketMap
      /\ userSocketMap[connUserId[s]] = s

\* C3: while a user's newest connection is live, the disconnect of an older
\* connection of that user does not turn the user's presence offline.
C3_StaleDisconnectKeepsOnline ==
  server = "socket_enhanced" =>
    \A s \in connected :
      (Admitted(s) /\ Newest(s)) =>
        /\ connUserId[s] \in DOMAIN userPresence
        /\ userPresence[connUserId[s]] = "online"

\* C4: a connection whose identity was not resolved (no valid token, and no
\* user record for the supplied userId) is in no registry map, in no user
\* room or conversation room, and not in the online-user list.
Unresolved(s) == handler[s] # "none" /\ authUser[s] = None /\ query[s] \notin Users

C4_UnresolvedNeverRegistered ==
  server = "socket" =>
    \A s \in Sockets :
      Unresolved(s) =>
        /\ \A u \in DOMAIN userSocketMap : userSocketMap[u] # s
        /\ s \notin DOMAIN socketUserMap
        /\ rooms[s] = {} /\ userRooms[s] = {}
        /\ (query[s] # None => query[s] \notin onlineList)

\* C5: the step that removes user u from conversation c (removeMember or
\* leaveConversation) leaves no live connection of u subscribed to room c.
C5_RemovedUserLeavesRoom ==
  [][\A c \in Convs, u \in Users :
       (u \in participants[c] /\ u \notin participants'[c]) =>
         \A s \in connected' : connUserId'[s] = u => c \notin rooms'[s]]_vars

\* C6: an event addressed to a user id reaches only connections admitted
\* for that user.
C6_TargetedEventsFollowRegistry ==
  \A s \in Sockets : \A e \in received[s] :
    e.user \in Users /\ e.name \in {"removedFromGroup", "memberRemoved",
                                     "memberLeft", "conversationLeft"}
      => connUserId[s] = e.user

\* the same registry statements, restricted to lib/socket.js
SocketJsRegistry ==
  server = "socket" => C1_OneConnectionPerUser /\ C2_StaleDisconnectKeepsMapping

\* ======================================================= claims, typing
\* C7: every typing episode that is neither renewed nor stopped ends by
\* expiry: the entry is eventually removed, and removing an entry
\* broadcasts exactly one userStoppedTyping, so that every episode begun
\* has had exactly one by then.
C7_ExpiryEndsEpisode ==
  /\ \A k \in Convs \X Users :
       (k \in DOMAIN typingUsers)
         ~> (k \notin DOMAIN typingUsers /\ stops[k] = episodes[k])
  /\ [][\A k \in Keys :
          (k \in DOMAIN typingUsers /\ k \notin DOMAIN typingUsers')
            => stops'[k] = stops[k] + 1]_vars

C7_Witness ==
  \E k \in Keys :
    /\ server = "socket"
    /\ lastStop[k] = "expiry"
    /\ k \notin DOMAIN typingUsers
    /\ episodes[k] >= 1 /\ stops[k] = episodes[k]

\* C8: userStoppedTyping is broadcast only by a step that removes a live
\* entry, hence at most once per episode whatever mix of stopTyping, expiry
\* and disconnect cleanup occurs; stopTyping for a key with no entry
\* changes nothing.
C8_StopAtMostOncePerEpisode ==
  [][/\ \A k \in Keys :
          stops'[k] # stops[k] =>
            /\ stops'[k] = stops[k] + 1
            /\ k \in DOMAIN typingUsers
            /\ k \notin DOMAIN typingUsers'
     /\ \A s \in Sockets, c \in Convs, u \in Users :
          (StopTypingEvent(s, c, u) /\ <<c, u>> \notin DOMAIN typingUsers)
            => UNCHANGED vars]_vars

C8_Witness ==
  \E k \in Keys :
    /\ episodes[k] = 2 /\ stops[k] = 2
    /\ k \notin DOMAIN typingUsers
    /\ lastStop[k] = "explicit"

\* C9: userTyping is broadcast only when an entry is created, once per
\* episode.
C9_TypingBroadcastOncePerEpisode ==
  \A k \in Keys : typings[k] = episodes[k]

\* C19: in lib/socket.js a typing entry exists exactly while one expiry timer
\* is armed for its key, the timer of the entry's socket; a key without an
\* entry has no armed timer.
C19_EntryIffOneTimer ==
  server = "socket" =>
    \A k \in Keys :
      IF k \in DOMAIN typingUsers
      THEN /\ SumOver(timers[k], Sockets) = 1
           /\ timers[k][typingUsers[k].socketId] = 1
      ELSE SumOver(timers[k], Sockets) = 0

C19_Witness ==
  \E k \in Keys :
    /\ server = "socket"
    /\ k \in DOMAIN typingUsers
    /\ episodes[k] = 1 /\ typings[k] = 2
    /\ SumOver(timers[k], Sockets) = 1

\* C20: once a connection's disconnect is processed, no typing entry created
\* through it is left and none of its timers is armed.
C20_DisconnectClearsTyping ==
  \A s \in Sockets \ connected : \A k \in Keys :
    /\ timers[k][s] = 0
    /\ k \in DOMAIN typingUsers => typingUsers[k].socketId # s

\* C21: when a participant's send request is answered, the attached
\* connections of the conversation's participants that are in its room have
\* been sent newMessage; and when a recipient is marked delivered for the
\* first time while the sender is registered and connected, the sender is
\* sent one messageStatusUpdate with status delivered for that recipient.
C21_SendThenDelivered ==
  /\ [][(response' # response /\ response'.op = "sendMessage") =>
          \A s \in connected :
            (/\ Listening(s)
             /\ connUserId[s] \in participants[response'.conv]
             /\ response'.conv \in rooms[s])
              => Event("newMessage", response'.sender) \in received'[s]]_vars
  /\ [][\A m \in DOMAIN messages, u \in Users :
          LET b == messages[m].senderId
          IN (/\ u # b
              /\ u \in participants[messages[m].conversationId]
              /\ Count(messages[m].delivered, u) = 0
              /\ Count(messages'[m].delivered, u) > 0
              /\ b \in DOMAIN userSocketMap
              /\ userSocketMap[b] \in connected)
               => /\ CopiesIn(<<m, "delivered", u>>, statusUpdates')
                     = CopiesIn(<<m, "delivered", u>>, statusUpdates) + 1
                  /\ Event("messageStatusUpdate", u) \in received'[userSocketMap[b]]]_vars

\* C22: a step whose persistence write is rejected sends no event to any
\* connection (no newMessage, messageStatusUpdate, reactionAdded,
\* reactionRemoved, and no error event), stores nothing, and leaves the
\* registry, the rooms and the typing state as they were.
C22_NoEventWithoutWrite ==
  [][writeErrors' # writeErrors =>
       /\ received' = received
       /\ statusUpdates' = statusUpdates
       /\ lastReaction' = lastReaction
       /\ copies' = copies
       /\ messages' = messages
       /\ UNCHANGED <<userSocketMap, socketUserMap, userPresence, rooms, userRooms,
                      typingUsers, timers>>]_vars

C22_Witness ==
  /\ writeErrors > 0
  /\ server = "socket_enhanced"
  /\ \E m \in DOMAIN messages :
       /\ messages[m].senderId \in DOMAIN userSocketMap
       /\ messages[m].delivered = EmptyBag /\ messages[m].read = EmptyBag
  /\ inFlight = EmptyBag
  /\ statusUpdates = EmptyBag

\* C29: of one message that was sent, a connection receives newMessage at
\* most once, although sendMessage emits to the conversation room and to the
\* user_<id> room of every participant
C29_NewMessageAtMostOnce ==
  \A k \in BagToSet(copies) : CopiesIn(k, copies) <= 1

\* C23: while the membership query of an attach has not completed, and after
\* it has failed, the connection is in no conversation room; a failure is
\* reported to the connection with an error event
Unsubscribed(s) == rooms[s] = {} /\ moreRooms[s] = 0

C23_FailedQueryJoinsNothing ==
  \A s \in connected :
    /\ handler[s] = "querying" => Unsubscribed(s)
    /\ handler[s] \in {"resuming", "registered"} /\ ~found[s].ok =>
         /\ Unsubscribed(s)
         /\ handler[s] = "registered" => Event("error", None) \in received[s]

C23_Witness ==
  \E s \in connected :
    /\ handler[s] = "registered"
    /\ ~found[s].ok
    /\ ConvsOf(Cur, connUserId[s]) # {}

\* C24: in socket_enhanced.js the presence of a user is online exactly when
\* userSocketMap holds a connection for the user; a user whose disconnect
\* listener has run is offline
IsOnline(u) == u \in DOMAIN userPresence /\ userPresence[u] = "online"

C24_OnlineIffRegistered ==
  server = "socket_enhanced" =>
    \A u \in Ids : IsOnline(u) <=> u \in DOMAIN userSocketMap

C24_Witness ==
  /\ server = "socket_enhanced"
  /\ \E u \in Users : IsOnline(u) /\ userSocketMap[u] \in connected
  /\ \E u \in Users : u \in DOMAIN userPresence /\ userPresence[u] = "offline"

\* every awaited query is answered, and every handler continues after it
AttachLive ==
  /\ AttachInit
  /\ [][AttachNext]_vars
  /\ \A s \in Sockets : WF_vars(DbAnswer(s)) /\ WF_vars(Resume(s)) /\ WF_vars(PresenceOffline(s))

\* userSocketMap names socket s, which is closed
Stale(s) ==
  /\ s \notin connected
  /\ \E u \in DOMAIN userSocketMap : userSocketMap[u] = s

\* C25: an entry of userSocketMap whose connection has disconnected is
\* eventually removed or replaced, also when the disconnect came while the
\* connection handler awaited its query; the online list follows the map
C25_StaleEntryEventuallyGone ==
  \A s \in Sockets : Stale(s) ~> ~Stale(s)

\* attach and membership changes of clients that name their user in the
\* handshake query, which is what the controllers' scans look for
RaceNext ==
  \/ ConnectWith({None}, Users)
  \/ \E s \in Sockets : DbAnswerWith(s, {TRUE})
  \/ \E s \in Sockets : Resume(s)
  \/ MemberNext

RaceSpec == Init /\ [][RaceNext]_vars

\* C26: a connection whose handler has run is in the room of a conversation
\* only while its user is a participant of it, also when the user was removed
\* while the handler awaited its membership query
C26_RoomOnlyWhileParticipant ==
  \A s \in connected :
    handler[s] = "registered" =>
      \A c \in rooms[s] : c \in DOMAIN participants /\ connUserId[s] \in participants[c]

\* C28: userTyping is broadcast in the name of user u, and an explicit
\* stopTyping ends an episode of u, only when u has a registered connection;
\* in socket.js, where the entry records the socket of the event, that socket
\* is the one registered for u
C28_TypingOnlyByOwnConnection ==
  [][\A k \in Keys :
       /\ typings'[k] # typings[k] =>
            /\ k[2] \in DOMAIN userSocketMap
            /\ server = "socket" => typingUsers'[k].socketId = userSocketMap[k[2]]
       /\ stops'[k] # stops[k] /\ lastStop'[k] = "explicit" =>
            k[2] \in DOMAIN userSocketMap]_vars

\* C27: when a reaction request completes, the stored user set of its emoji
\* has the user of an add and has not the user of a remove, whatever other
\* users' requests overlapped it, and every count is the size of its emoji's
\* user set
C27_NoLostReaction ==
  [][\A op \in reactionOps \ reactionOps' :
       LET rs == messages'[op.m].reactions
       IN /\ op.kind = "add" => op.u \in UsersOf(rs, op.emoji)
          /\ op.kind = "remove" => op.u \notin UsersOf(rs, op.emoji)
          /\ \A i \in DOMAIN rs : rs[i].count = Cardinality(UsersOf(rs, rs[i].emoji))]_vars

\* membership and roles of the stored groups, with one client attached
GroupConnect == connected = {} /\ ConnectWith({None}, Users)

GroupNext ==
  \/ GroupConnect
  \/ \E s \in Sockets : DbAnswerWith(s, {TRUE})
  \/ \E s \in Sockets : Resume(s)
  \/ MemberNext
  \/ \E c \in Convs, a \in Users, u \in Users, role \in {"admin", "member"} :
       ChangeMemberRole(c, a, u, role)
  \/ \E c \in Convs, a \in Users, u \in Users : InviteToGroup(c, a, u)
  \/ \E inv \in invitations, action \in {"accept", "decline"} : RespondToInvitation(inv, action)

GroupSpec == Init /\ [][GroupNext]_vars

\* C30: every admin of a group is a participant of it, and a group that has
\* participants has an admin
C30_AdminsAreParticipants ==
  \A c \in DOMAIN participants :
    /\ admins[c] \subseteq participants[c]
    /\ participants[c] # {} => admins[c] # {}

====
